---- MODULE Spec2Model ----
(***************************************************************************)
(* A model of the two scripts of the repository.                           *)
(*                                                                         *)
(*   scanLogs.py         main() calls parse_mongo_log, print_summary,      *)
(*                       print_detailed_results and export_to_file in      *)
(*                       turn (specification Spec / FairSpec).             *)
(*   dockerSiteCheck.py  main() connects to Selenium, logs in, navigates   *)
(*                       to a database, lists its collections and quits    *)
(*                       the driver in a finally block (SpecSite).         *)
(*                                                                         *)
(* A log line is a sequence of tokens [k, v]; a regular expression search  *)
(* of parse_collscan_line is the first token of the kind the pattern       *)
(* matches (re.search returns the leftmost match).  What a print or a      *)
(* write emits is recorded in a variable of the model.                     *)
(***************************************************************************)
EXTENDS Integers, Sequences, FiniteSets, TLC

VARIABLES
    \* ---- scanLogs.py
    file_exists,      \* whether LOG_FILE_PATH resolves
    log_lines,        \* the lines read from the log file so far, in physical order
    EXPORT_RESULTS,   \* main's configuration flag
    pc,               \* main's position
    calls,            \* the functions main has called so far, in order
    line_number,      \* parse_mongo_log's counter
    pml_queries,      \* parse_mongo_log's local list collscan_queries
    scan_status,      \* how parse_mongo_log returned
    collscan_queries, \* main's collscan_queries (parse_mongo_log's result)
    summary,          \* what print_summary printed
    detail,           \* what print_detailed_results printed
    export,           \* what export_to_file wrote
    banner,           \* whether "Analysis Complete!" was printed
    \* ---- dockerSiteCheck.py
    site_pc,          \* main's position
    DATABASE_NAME,    \* main's configuration: <<>> (None) or <<name>>
    page,             \* what the driver's find_elements calls will return
    driver,           \* main's local driver: <<>> (None) or <<"driver">>
    quit_calls,       \* number of driver.quit() calls
    exit_status,      \* <<>> while running or returned; <<1>> after sys.exit(1)
    raised,           \* the exception propagating in main, if any
    collections,      \* the collections the listing functions returned
    site_trace        \* the outcomes of the stages main went through

scan_vars == <<file_exists, log_lines, EXPORT_RESULTS, pc, calls, line_number,
               pml_queries, scan_status, collscan_queries, summary, detail,
               export, banner>>
site_vars == <<site_pc, DATABASE_NAME, page, driver, quit_calls, exit_status,
               raised, collections, site_trace>>
vars == <<scan_vars, site_vars>>

\* ------------------------------------------------------------------ bounds
MaxLines == 3
MaxLimit == 3
MaxLinks == 2

\* --------------------------------------------------------- optional values
\* Python's None is the empty sequence, a value v is <<v>>.
None == <<>>
Some(v) == <<v>>
IsNone(x) == x = <<>>
Val(x) == x[1]

\* The element of a one-element set.  {F(x) : x \in {e}} evaluates e once,
\* where F(e) would evaluate it at every use of F's parameter.
The(S) == CHOOSE x \in S : TRUE

\* ------------------------------------------------------------- log lines
Tok(k, v) == [k |-> k, v |-> v]

\* The lines a log file is made of.  Two lines without the marker (one of
\* them carrying fields the patterns would match), a marker line on which no
\* pattern matches, and marker lines with two namespaces, a fallback
\* collection field and durations of 0, at the threshold and above it.
LineKinds ==
    { <<Tok("word", "NETWORK")>>,
      <<Tok("word", "IXSCAN"), Tok("ns", "db.a"), Tok("ms", "101"),
        Tok("plan", "IXSCAN")>>,
      <<Tok("word", "COLLSCAN")>>,
      <<Tok("ts", "2024-12-10T10:30:45.123+0000"), Tok("word", "COLLSCAN"),
        Tok("ns", "db.a"), Tok("query", "{status:1}"), Tok("ms", "101"),
        Tok("docs", "5000"), Tok("keys", "0"), Tok("plan", "COLLSCAN")>>,
      <<Tok("word", "COLLSCAN"), Tok("ns", "db.b"), Tok("ms", "101")>>,
      <<Tok("ns", "db.a"), Tok("ms", "100"), Tok("plan", "COLLSCAN")>>,
      <<Tok("word", "COLLSCAN"), Tok("collection", "c"), Tok("ms", "0"),
        Tok("ms", "101")>> }

\* 'COLLSCAN' in line: the substring occurs as a word of its own or as the
\* value that follows planSummary:.
ContainsMarker(line) ==
    \E i \in 1..Len(line) :
        line[i].k \in {"word", "plan"} /\ line[i].v = "COLLSCAN"

\* re.search(pattern, line): group(1) of the leftmost match, or None.
Search(kind, line) ==
    LET hits == {i \in 1..Len(line) : line[i].k = kind}
    IN IF hits = {} THEN None
       ELSE Some(line[CHOOSE i \in hits : \A j \in hits : i <= j].v)

\* int(s) on the digit strings the lines hold.
int_of(s) ==
    CASE s = "0" -> 0
      [] s = "100" -> 100
      [] s = "101" -> 101
      [] s = "5000" -> 5000

OptInt(m) == IF IsNone(m) THEN None ELSE Some(int_of(Val(m)))

\* parse_collscan_line(line, line_number)
parse_collscan_line(line, n) ==
    LET ns_match == Search("ns", line)
        collection_match == Search("collection", line)
    IN [ line_number |-> n,
         timestamp |-> Search("ts", line),
         collection |-> IF ~IsNone(ns_match) THEN ns_match ELSE collection_match,
         query |-> Search("query", line),
         duration_ms |-> OptInt(Search("ms", line)),
         docs_examined |-> OptInt(Search("docs", line)),
         keys_examined |-> OptInt(Search("keys", line)),
         plan_summary |-> Search("plan", line),
         raw_line |-> line ]

\* ------------------------------------------------------------ the scanner
\* What the detail view and the report hold before anything is printed.
NoSummary == [printed |-> "nothing", total |-> 0, table |-> <<>>,
              slow |-> None, average |-> None]
NoDetail == [printed |-> FALSE, limit |-> None, blocks |-> <<>>, more |-> None]
NoExport == [status |-> "not_called", blocks |-> <<>>]

\* All sequences over S of length at most n.
SeqUpTo(S, n) == UNION {[1..k -> S] : k \in 0..n}

InitScan ==
    /\ file_exists \in BOOLEAN
    /\ log_lines = <<>>
    /\ EXPORT_RESULTS \in BOOLEAN
    /\ pc = "start"
    /\ calls = <<>>
    /\ line_number = 0
    /\ pml_queries = <<>>
    /\ scan_status = "running"
    /\ collscan_queries = <<>>
    /\ summary = NoSummary
    /\ detail = NoDetail
    /\ export = NoExport
    /\ banner = FALSE

\* parse_mongo_log returns `result` to main (line 228), which goes on to
\* print_summary.
ScanReturns(status, result) ==
    /\ scan_status' = status
    /\ collscan_queries' = result
    /\ pc' = "summary"

\* main calls parse_mongo_log; open() succeeds and the loop is entered.
OpenLog ==
    /\ pc = "start"
    /\ file_exists
    /\ pc' = "scan"
    /\ calls' = Append(calls, "parse_mongo_log")
    /\ line_number' = 0
    /\ pml_queries' = <<>>
    /\ UNCHANGED <<file_exists, log_lines, EXPORT_RESULTS, scan_status,
                   collscan_queries, summary, detail, export, banner>>

\* open() raises FileNotFoundError: caught at line 37, [] is returned.
OpenNotFound ==
    /\ pc = "start"
    /\ ~file_exists
    /\ calls' = Append(calls, "parse_mongo_log")
    /\ ScanReturns("not_found", <<>>)
    /\ UNCHANGED <<file_exists, log_lines, EXPORT_RESULTS, line_number,
                   pml_queries, summary, detail, export, banner>>

\* open() raises another error (permission, a directory): caught at line 40.
OpenFails ==
    /\ pc = "start"
    /\ file_exists
    /\ calls' = Append(calls, "parse_mongo_log")
    /\ ScanReturns("io_error", <<>>)
    /\ UNCHANGED <<file_exists, log_lines, EXPORT_RESULTS, line_number,
                   pml_queries, summary, detail, export, banner>>

\* (mutant) a record counts only when a namespace was extracted.
TruthyWhenPopulated(query_info) == ~IsNone(query_info.collection)

\* bool(query_info): a dict with keys is true.
Truthy(query_info) == DOMAIN query_info # {}

\* (mutant) the counter incremented at the end of the loop body: the record
\* gets the number of the line before.
ScanLineCountsLast ==
    /\ pc = "scan"
    /\ line_number < MaxLines
    /\ line_number' = line_number + 1
    /\ \E line \in LineKinds :
        /\ log_lines' = Append(log_lines, line)
        /\ LET query_info == parse_collscan_line(line, line_number)
           IN pml_queries' =
                  IF ContainsMarker(line) /\ Truthy(query_info)
                  THEN Append(pml_queries, query_info)
                  ELSE pml_queries
    /\ UNCHANGED <<file_exists, EXPORT_RESULTS, pc, calls, scan_status,
                   collscan_queries, summary, detail, export, banner>>

\* One iteration of `for line in f` (lines 25-33): the file yields its next
\* line.
ScanLine ==
    /\ pc = "scan"
    /\ line_number < MaxLines
    /\ line_number' = line_number + 1
    /\ \E line \in LineKinds :
        /\ log_lines' = Append(log_lines, line)
        /\ LET query_info == parse_collscan_line(line, line_number + 1)
           IN pml_queries' =
                  IF ContainsMarker(line) /\ Truthy(query_info)
                  THEN Append(pml_queries, query_info)
                  ELSE pml_queries
    /\ UNCHANGED <<file_exists, EXPORT_RESULTS, pc, calls, scan_status,
                   collscan_queries, summary, detail, export, banner>>

\* The file has no further line: `return collscan_queries` (line 35).
ScanEnds ==
    /\ pc = "scan"
    /\ ScanReturns("ok", pml_queries)
    /\ UNCHANGED <<file_exists, log_lines, EXPORT_RESULTS, calls, line_number,
                   pml_queries, summary, detail, export, banner>>

\* (mutant) the handler returns the records matched so far.
ReadErrorKeepsPartial(partial) == partial

\* What the handler of line 40 returns when a read raises.
ReadErrorResult(partial) == <<>>

\* Reading the next line raises (an OSError): `except Exception` at line 40
\* reports it and returns [].  pml_queries keeps the value the local list had
\* when the exception was raised.
ReadFails ==
    /\ pc = "scan"
    /\ ScanReturns("io_error", ReadErrorResult(pml_queries))
    /\ UNCHANGED <<file_exists, log_lines, EXPORT_RESULTS, calls, line_number,
                   pml_queries, summary, detail, export, banner>>

\* ------------------------------------------------------------ print_summary
SLOW_MS == 100

\* by_collection[name] += 1 on a defaultdict(int), whose items() are in the
\* order the keys were first inserted: a sequence of [collection, count].
Increment(by_collection, name) ==
    IF \E i \in 1..Len(by_collection) : by_collection[i].collection = name
    THEN [i \in 1..Len(by_collection) |->
             IF by_collection[i].collection = name
             THEN [by_collection[i] EXCEPT !.count = @ + 1]
             ELSE by_collection[i]]
    ELSE Append(by_collection, [collection |-> name, count |-> 1])

\* `if query['collection']:` and `if query['duration_ms']:` test truth: None,
\* the empty string and 0 are false.
TrueStr(x) == ~IsNone(x) /\ Val(x) # ""
TrueInt(x) == ~IsNone(x) /\ Val(x) # 0

\* (mutant) `>= 100` for `> 100`.
IsSlowAtLeast(duration_ms) == duration_ms >= SLOW_MS

\* `query['duration_ms'] > 100` (line 133).
IsSlow(duration_ms) == duration_ms > SLOW_MS

\* The loop of lines 127-134 over the first n records: by_collection,
\* total_duration and slow_queries after them.
RECURSIVE ByCollection(_, _)
ByCollection(queries, n) ==
    IF n = 0 THEN <<>>
    ELSE IF TrueStr(queries[n].collection)
         THEN The({Increment(by_collection, Val(queries[n].collection)) :
                      by_collection \in {ByCollection(queries, n - 1)}})
         ELSE ByCollection(queries, n - 1)

RECURSIVE TotalDuration(_, _)
TotalDuration(queries, n) ==
    IF n = 0 THEN 0
    ELSE IF TrueInt(queries[n].duration_ms)
         THEN TotalDuration(queries, n - 1) + Val(queries[n].duration_ms)
         ELSE TotalDuration(queries, n - 1)

RECURSIVE SlowQueries(_, _)
SlowQueries(queries, n) ==
    IF n = 0 THEN <<>>
    ELSE IF TrueInt(queries[n].duration_ms) /\ IsSlow(Val(queries[n].duration_ms))
         THEN Append(SlowQueries(queries, n - 1), queries[n])
         ELSE SlowQueries(queries, n - 1)

\* Where x goes in a list sorted by descending count: behind every item whose
\* count is at least x's.
InsertDescending(sorted, x) ==
    LET k == Cardinality({i \in 1..Len(sorted) : sorted[i].count >= x.count})
    IN SubSeq(sorted, 1, k) \o <<x>> \o SubSeq(sorted, k + 1, Len(sorted))

\* sorted(items, key=lambda x: x[1], reverse=True): a stable sort, and
\* reverse=True keeps the original order of items with equal keys.
RECURSIVE SortedByCountTo(_, _)
SortedByCountTo(items, n) ==
    IF n = 0 THEN <<>>
    ELSE The({InsertDescending(sorted, items[n]) :
                 sorted \in {SortedByCountTo(items, n - 1)}})

Reversed(s) == [i \in 1..Len(s) |-> s[Len(s) + 1 - i]]

\* (mutant) an ascending stable sort followed by a reversal.
InsertAscending(sorted, x) ==
    LET k == Cardinality({i \in 1..Len(sorted) : sorted[i].count <= x.count})
    IN SubSeq(sorted, 1, k) \o <<x>> \o SubSeq(sorted, k + 1, Len(sorted))

RECURSIVE SortedAscendingTo(_, _)
SortedAscendingTo(items, n) ==
    IF n = 0 THEN <<>>
    ELSE The({InsertAscending(sorted, items[n]) :
                 sorted \in {SortedAscendingTo(items, n - 1)}})

SortedThenReversed(items) ==
    The({Reversed(SortedAscendingTo(list, Len(list))) : list \in {items}})

SortedByCount(items) ==
    The({SortedByCountTo(list, Len(list)) : list \in {items}})

\* f"{x / n:.2f}": the quotient to two decimals, as a number of hundredths
\* (round to nearest; no quotient of these bounds lies on a tie).
Fmt2(x, n) == (200 * x + n) \div (2 * n)

\* (mutant) the average over the records that have a duration.
AverageOverKnown(queries, total_duration) ==
    LET known == Cardinality({i \in 1..Len(queries) :
                                 ~IsNone(queries[i].duration_ms)})
    IN Fmt2(total_duration, known)

\* total_duration / len(collscan_queries), line 145.
Average(queries, total_duration) == Fmt2(total_duration, Len(queries))

\* print_summary(collscan_queries), called at line 231.
PrintSummary ==
    /\ pc = "summary"
    /\ pc' = "detail"
    /\ calls' = Append(calls, "print_summary")
    /\ summary' =
        IF collscan_queries = <<>>
        THEN [NoSummary EXCEPT !.printed = "no_matches"]
        ELSE LET n == Len(collscan_queries)
                 slow_queries == SlowQueries(collscan_queries, n)
             IN [ printed |-> "summary",
                  total |-> n,
                  table |-> SortedByCount(ByCollection(collscan_queries, n)),
                  slow |-> IF slow_queries # <<>> THEN Some(Len(slow_queries))
                           ELSE None,
                  average |->
                      IF slow_queries # <<>>
                      THEN Some(Average(collscan_queries,
                                        TotalDuration(collscan_queries, n)))
                      ELSE None ]
    /\ UNCHANGED <<file_exists, log_lines, EXPORT_RESULTS, line_number,
                   pml_queries, scan_status, collscan_queries, detail, export,
                   banner>>

\* --------------------------------------------------- print_detailed_results
\* s[:k], Python's slice: a negative k counts from the end.
Prefix(s, k) ==
    LET stop == IF k < 0 THEN Len(s) + k ELSE k
        m == IF stop < 0 THEN 0 ELSE IF stop > Len(s) THEN Len(s) ELSE stop
    IN SubSeq(s, 1, m)

\* The lines one block of the detail view prints for `query`, numbered i
\* (lines 160-184): a field is printed when it is populated.  The lines of
\* LineKinds are shorter than the 100 characters raw_line[:100] keeps.
DetailBlock(i, query, show_details) ==
    [ index |-> i,
      line_number |-> query.line_number,
      timestamp |-> IF TrueStr(query.timestamp) THEN query.timestamp ELSE None,
      collection |-> IF TrueStr(query.collection) THEN query.collection ELSE None,
      duration_ms |-> query.duration_ms,
      docs_examined |-> query.docs_examined,
      keys_examined |-> query.keys_examined,
      plan_summary |-> IF TrueStr(query.plan_summary) THEN query.plan_summary
                       ELSE None,
      query |-> IF TrueStr(query.query) /\ show_details THEN query.query ELSE None,
      raw |-> IF show_details THEN Some(query.raw_line) ELSE None ]

\* (mutant) the count of records not shown, taken from the limit even when
\* fewer records than the limit exist.
MoreQueriesAlways(n, limit) == Some(n - limit)

\* Lines 186-187: what is reported as not shown.
MoreQueries(n, limit) == IF n > limit THEN Some(n - limit) ELSE None

\* main passes show_details=SHOW_DETAILS, which line 222 sets.
SHOW_DETAILS == TRUE

\* The limits a caller passes: any int, the negative ones included.
Limits == (0 - 1)..MaxLimit

\* print_detailed_results(collscan_queries, show_details, limit), line 234.
PrintDetailedResults ==
    /\ pc = "detail"
    /\ pc' = "export"
    /\ calls' = Append(calls, "print_detailed_results")
    /\ \E limit \in Limits :
        detail' =
            IF collscan_queries = <<>>
            THEN NoDetail
            ELSE LET shown == Prefix(collscan_queries, limit)
                 IN [ printed |-> TRUE,
                      limit |-> Some(limit),
                      blocks |-> [i \in 1..Len(shown) |->
                                     DetailBlock(i, shown[i], SHOW_DETAILS)],
                      more |-> MoreQueries(Len(collscan_queries), limit) ]
    /\ UNCHANGED <<file_exists, log_lines, EXPORT_RESULTS, line_number,
                   pml_queries, scan_status, collscan_queries, summary, export,
                   banner>>

\* ----------------------------------------------------------- export_to_file
\* The block lines 200-207 write for `query`, numbered i.
ReportBlock(i, query) ==
    [ index |-> i,
      line_number |-> query.line_number,
      timestamp |-> query.timestamp,
      collection |-> query.collection,
      duration_ms |-> query.duration_ms,
      docs_examined |-> query.docs_examined,
      query |-> query.query,
      raw_line |-> query.raw_line ]

\* (mutant) the export cut to the detail view's records.
ExportedAsShown(queries) == Prefix(queries, Len(detail.blocks))

\* The records export_to_file writes: `enumerate(collscan_queries, 1)`.
Exported(queries) == queries

ReportBlocks(queries) ==
    [i \in 1..Len(Exported(queries)) |-> ReportBlock(i, Exported(queries)[i])]

\* (mutant) export_to_file without its try/except: the error leaves main.
ExportErrorEscapes(written) ==
    /\ export' = [status |-> "failed", blocks |-> written]
    /\ pc' = "crashed"

\* `except Exception` at line 211: the error is reported and export_to_file
\* returns; main goes on to the banner.
ExportErrorCaught(written) ==
    /\ export' = [status |-> "failed", blocks |-> written]
    /\ pc' = "banner"

\* `if EXPORT_RESULTS and collscan_queries:` (line 237) is false.
ExportSkipped ==
    /\ pc = "export"
    /\ ~(EXPORT_RESULTS /\ collscan_queries # <<>>)
    /\ pc' = "banner"
    /\ UNCHANGED <<file_exists, log_lines, EXPORT_RESULTS, calls, line_number,
                   pml_queries, scan_status, collscan_queries, summary, detail,
                   export, banner>>

\* export_to_file(collscan_queries, OUTPUT_FILE) writes every block.
ExportWrites ==
    /\ pc = "export"
    /\ EXPORT_RESULTS /\ collscan_queries # <<>>
    /\ calls' = Append(calls, "export_to_file")
    /\ export' = [status |-> "exported", blocks |-> ReportBlocks(collscan_queries)]
    /\ pc' = "banner"
    /\ UNCHANGED <<file_exists, log_lines, EXPORT_RESULTS, line_number,
                   pml_queries, scan_status, collscan_queries, summary, detail,
                   banner>>

\* open(output_file, 'w') raises (a missing directory), or a write raises
\* after k blocks.
ExportFails ==
    /\ pc = "export"
    /\ EXPORT_RESULTS /\ collscan_queries # <<>>
    /\ calls' = Append(calls, "export_to_file")
    /\ \E k \in 0..(Len(collscan_queries) - 1) :
        ExportErrorCaught(SubSeq(ReportBlocks(collscan_queries), 1, k))
    /\ UNCHANGED <<file_exists, log_lines, EXPORT_RESULTS, line_number,
                   pml_queries, scan_status, collscan_queries, summary, detail,
                   banner>>

\* Lines 240-242: the completion banner; main returns.
PrintBanner ==
    /\ pc = "banner"
    /\ banner' = TRUE
    /\ pc' = "done"
    /\ calls' = Append(calls, "banner")
    /\ UNCHANGED <<file_exists, log_lines, EXPORT_RESULTS, line_number,
                   pml_queries, scan_status, collscan_queries, summary, detail,
                   export>>

\* ===================================================== dockerSiteCheck.py
\* The texts of the database links of the page, and what
\* text.replace('view', '').replace('View', '').strip() and str.lower() make
\* of them.
DbTexts == {"admin view", "local View", "Admin"}

Clean(text) ==
    CASE text = "admin view" -> "admin"
      [] text = "local View" -> "local"
      [] text = "Admin" -> "Admin"

Lower(text) ==
    CASE text = "Admin" -> "admin"
      [] OTHER -> text

\* The page the driver shows: the texts of its database links, the link text
\* inside each h3 (None: the h3 holds no link) and the stripped texts of the
\* links whose href contains 'Collections'.
Pages ==
    [ db_links : SeqUpTo(DbTexts, MaxLinks),
      h3_links : SeqUpTo({Some("users"), None}, MaxLinks),
      collection_links : SeqUpTo({"users", ""}, MaxLinks) ]

InitSite ==
    /\ site_pc = "connect"
    /\ DATABASE_NAME \in {None, Some("admin"), Some("orders")}
    /\ page \in Pages
    /\ driver = None
    /\ quit_calls = 0
    /\ exit_status = None
    /\ raised = None
    /\ collections = None
    /\ site_trace = <<>>

\* A stage of main ends with `outcome` and main goes to `next`.
Stage(name, outcome, next) ==
    /\ site_trace' = Append(site_trace, <<name, outcome>>)
    /\ site_pc' = next

\* An exception leaves a stage called inside main's try block (lines 239-264):
\* KeyboardInterrupt goes to the handler of line 266, another Exception to
\* the handler of line 268.
StageRaises(name) ==
    \E e \in {"KeyboardInterrupt", "Exception"} :
        /\ raised' = Some(e)
        /\ Stage(name, e, IF e = "KeyboardInterrupt" THEN "except_interrupt"
                          ELSE "except_exception")

\* connect_to_selenium() returns the driver (line 27), assigned at line 241.
ConnectReturns ==
    /\ site_pc = "connect"
    /\ driver' = Some("driver")
    /\ Stage("connect", "driver", "login")
    /\ UNCHANGED <<DATABASE_NAME, page, quit_calls, exit_status, raised,
                   collections>>

\* webdriver.Remote raises: the handler of line 28 calls sys.exit(1), and
\* SystemExit passes both handlers of main on its way to the finally block.
ConnectFails ==
    /\ site_pc = "connect"
    /\ raised' = Some("SystemExit")
    /\ Stage("connect", "SystemExit", "finally")
    /\ UNCHANGED <<DATABASE_NAME, page, driver, quit_calls, exit_status,
                   collections>>

\* A keyboard interrupt while connecting is no Exception: it leaves
\* connect_to_selenium and reaches the handler of line 266.
ConnectInterrupted ==
    /\ site_pc = "connect"
    /\ raised' = Some("KeyboardInterrupt")
    /\ Stage("connect", "KeyboardInterrupt", "except_interrupt")
    /\ UNCHANGED <<DATABASE_NAME, page, driver, quit_calls, exit_status,
                   collections>>

\* login_to_mongo_express returns True, or False after the handler of line 60
\* caught an error of driver.get (lines 244-256 choose what follows).
Login ==
    /\ site_pc = "login"
    /\ \/ Stage("login", "True",
                IF ~IsNone(DATABASE_NAME) /\ Val(DATABASE_NAME) # ""
                THEN "navigate" ELSE "list_all")
       \/ Stage("login", "False", "complete")
    /\ UNCHANGED <<DATABASE_NAME, page, driver, quit_calls, exit_status, raised,
                   collections>>

LoginRaises ==
    /\ site_pc = "login"
    /\ StageRaises("login")
    /\ UNCHANGED <<DATABASE_NAME, page, driver, quit_calls, exit_status,
                   collections>>

\* The loop of lines 155-168 finds a link of the database.
DatabaseListed(database_name) ==
    \E i \in 1..Len(page.db_links) :
        Lower(Clean(page.db_links[i])) = Lower(database_name)

\* navigate_to_database returns True after the click, or False when the
\* database is not listed or the handler of line 173 caught an error.
Navigate ==
    /\ site_pc = "navigate"
    /\ \/ /\ DatabaseListed(Val(DATABASE_NAME))
          /\ Stage("navigate", "True", "list_db")
       \/ /\ ~DatabaseListed(Val(DATABASE_NAME))
          /\ Stage("navigate", "False", "list_all")
       \/ Stage("navigate", "False after error", "list_all")
    /\ UNCHANGED <<DATABASE_NAME, page, driver, quit_calls, exit_status, raised,
                   collections>>

NavigateRaises ==
    /\ site_pc = "navigate"
    /\ StageRaises("navigate")
    /\ UNCHANGED <<DATABASE_NAME, page, driver, quit_calls, exit_status,
                   collections>>

\* The loop of lines 197-206 over the first n h3 elements: the names of the
\* links, without repetition; an h3 without a link is skipped.
RECURSIVE H3Names(_, _)
H3Names(h3_links, n) ==
    IF n = 0 THEN <<>>
    ELSE LET names == H3Names(h3_links, n - 1)
             link == h3_links[n]
         IN IF TrueStr(link) /\ \A i \in 1..Len(names) : names[i] # Val(link)
            THEN Append(names, Val(link))
            ELSE names

\* list_collections_in_database returns the names it collected: all of them,
\* or those found before an error the handler of line 208 caught.
ListDatabase ==
    /\ site_pc = "list_db"
    /\ \E n \in 0..Len(page.h3_links) :
        collections' = Some(H3Names(page.h3_links, n))
    /\ Stage("list_db", "returned", "complete")
    /\ UNCHANGED <<DATABASE_NAME, page, driver, quit_calls, exit_status, raised>>

ListDatabaseRaises ==
    /\ site_pc = "list_db"
    /\ StageRaises("list_db")
    /\ UNCHANGED <<DATABASE_NAME, page, driver, quit_calls, exit_status,
                   collections>>

\* Lines 88-91: the non-empty texts of the first n collection links.
RECURSIVE LinkNames(_, _)
LinkNames(links, n) ==
    IF n = 0 THEN <<>>
    ELSE IF links[n] # "" THEN Append(LinkNames(links, n - 1), links[n])
         ELSE LinkNames(links, n - 1)

\* list_collections returns the names of the collection links, or [] after
\* one of its handlers (lines 134-139) caught an error.  Method 2 (lines
\* 96-106) adds nothing: 'Collections' is never in a lower-cased href.
ListAll ==
    /\ site_pc = "list_all"
    /\ \/ collections' = Some(LinkNames(page.collection_links,
                                        Len(page.collection_links)))
       \/ collections' = Some(<<>>)
    /\ Stage("list_all", "returned", "complete")
    /\ UNCHANGED <<DATABASE_NAME, page, driver, quit_calls, exit_status, raised>>

ListAllRaises ==
    /\ site_pc = "list_all"
    /\ StageRaises("list_all")
    /\ UNCHANGED <<DATABASE_NAME, page, driver, quit_calls, exit_status,
                   collections>>

\* Lines 262-264: "Complete!", and the try block ends.
Complete ==
    /\ site_pc = "complete"
    /\ Stage("complete", "printed", "finally")
    /\ UNCHANGED <<DATABASE_NAME, page, driver, quit_calls, exit_status, raised,
                   collections>>

\* The handlers of lines 266-269 print and fall through to the finally block.
Handler ==
    /\ site_pc \in {"except_interrupt", "except_exception"}
    /\ raised' = None
    /\ Stage(site_pc, "handled", "finally")
    /\ UNCHANGED <<DATABASE_NAME, page, driver, quit_calls, exit_status,
                   collections>>

\* (mutant) quit only on the normal path: the cleanup placed at the end of
\* the try block instead of in a finally block.
QuitOnSuccessOnly ==
    IF ~IsNone(driver) /\ site_trace[Len(site_trace)][1] = "complete"
    THEN quit_calls + 1 ELSE quit_calls

\* `if driver: driver.quit()` (lines 272-274).
QuitIfDriver == IF ~IsNone(driver) THEN quit_calls + 1 ELSE quit_calls

\* The finally block (lines 270-274), after which main returns or the
\* pending SystemExit ends the process with status 1.
Finally ==
    /\ site_pc = "finally"
    /\ quit_calls' = QuitIfDriver
    /\ \/ /\ raised = Some("SystemExit")
          /\ exit_status' = Some(1)
          /\ Stage("finally", "exit", "exited")
       \/ /\ raised # Some("SystemExit")
          /\ exit_status' = exit_status
          /\ Stage("finally", "return", "returned")
    /\ UNCHANGED <<DATABASE_NAME, page, driver, raised, collections>>

\* ======================================================== specifications
\* The two scripts are separate processes that share nothing: each
\* specification runs one of them and leaves the other where it starts.
ScanNotStarted ==
    /\ file_exists = FALSE
    /\ log_lines = <<>>
    /\ EXPORT_RESULTS = TRUE
    /\ pc = "start"
    /\ calls = <<>>
    /\ line_number = 0
    /\ pml_queries = <<>>
    /\ scan_status = "running"
    /\ collscan_queries = <<>>
    /\ summary = NoSummary
    /\ detail = NoDetail
    /\ export = NoExport
    /\ banner = FALSE

SiteNotStarted ==
    /\ site_pc = "connect"
    /\ DATABASE_NAME = Some("admin")
    /\ page = [db_links |-> <<>>, h3_links |-> <<>>, collection_links |-> <<>>]
    /\ driver = None
    /\ quit_calls = 0
    /\ exit_status = None
    /\ raised = None
    /\ collections = None
    /\ site_trace = <<>>

Init == InitScan /\ SiteNotStarted

Next ==
    \/ OpenLog /\ UNCHANGED site_vars
    \/ OpenNotFound /\ UNCHANGED site_vars
    \/ OpenFails /\ UNCHANGED site_vars
    \/ ScanLine /\ UNCHANGED site_vars
    \/ ScanEnds /\ UNCHANGED site_vars
    \/ ReadFails /\ UNCHANGED site_vars
    \/ PrintSummary /\ UNCHANGED site_vars
    \/ PrintDetailedResults /\ UNCHANGED site_vars
    \/ ExportSkipped /\ UNCHANGED site_vars
    \/ ExportWrites /\ UNCHANGED site_vars
    \/ ExportFails /\ UNCHANGED site_vars
    \/ PrintBanner /\ UNCHANGED site_vars

Spec == Init /\ [][Next]_vars

\* main is sequential code: whenever a step is possible, one is taken.
FairSpec == Spec /\ WF_vars(Next)

InitSiteCheck == InitSite /\ ScanNotStarted

NextSite ==
    \/ ConnectReturns /\ UNCHANGED scan_vars
    \/ ConnectFails /\ UNCHANGED scan_vars
    \/ ConnectInterrupted /\ UNCHANGED scan_vars
    \/ Login /\ UNCHANGED scan_vars
    \/ LoginRaises /\ UNCHANGED scan_vars
    \/ Navigate /\ UNCHANGED scan_vars
    \/ NavigateRaises /\ UNCHANGED scan_vars
    \/ ListDatabase /\ UNCHANGED scan_vars
    \/ ListDatabaseRaises /\ UNCHANGED scan_vars
    \/ ListAll /\ UNCHANGED scan_vars
    \/ ListAllRaises /\ UNCHANGED scan_vars
    \/ Complete /\ UNCHANGED scan_vars
    \/ Handler /\ UNCHANGED scan_vars
    \/ Finally /\ UNCHANGED scan_vars

SpecSite == InitSiteCheck /\ [][NextSite]_vars

\* ================================================================ claims
\* The positions, among the first n lines of the file, of the lines that
\* contain the marker, and the position of the i-th of them.
MarkerLines(n) == {p \in 1..n : ContainsMarker(log_lines[p])}
NthMarker(i, n) ==
    CHOOSE p \in MarkerLines(n) : Cardinality({q \in MarkerLines(n) : q <= p}) = i

Returned == pc \notin {"start", "scan"}
AfterSummary == pc \notin {"start", "scan", "summary"}

\* C1: the records parse_mongo_log builds and returns carry line numbers that
\* count from 1, strictly increase along the sequence, and are each the
\* physical position in the file of the marker line the record was made
\* from, whatever lies between two marker lines.
C1_LineNumbers ==
    \A queries \in {pml_queries, collscan_queries} :
        /\ \A i \in 1..Len(queries) :
            /\ queries[i].line_number >= 1
            /\ queries[i].line_number = NthMarker(i, Len(log_lines))
            /\ queries[i].raw_line = log_lines[queries[i].line_number]
        /\ \A i, j \in 1..Len(queries) :
            i < j => queries[i].line_number < queries[j].line_number

\* Two records returned with a line that is no marker line between them.
C1_Witness ==
    /\ pc = "done"
    /\ Len(collscan_queries) >= 2
    /\ collscan_queries[1].line_number = 1
    /\ collscan_queries[2].line_number = 3

\* C2 (as stated): after a read failure that follows one or more matches,
\* main goes on with the records matched before the failure.
C2_PartialResultsKept ==
    (Returned /\ scan_status = "io_error" /\ pml_queries # <<>>)
        => collscan_queries = pml_queries

\* C2 (amended): after a read failure parse_mongo_log returns the empty
\* sequence, the records matched before the failure are dropped, and main
\* goes on through the summary ("no matches"), the detail view (nothing
\* printed) and the export test (export not called) to the banner.
C2_ReadErrorReturnsEmpty ==
    (Returned /\ scan_status = "io_error") =>
        /\ collscan_queries = <<>>
        /\ AfterSummary => summary.printed = "no_matches"
        /\ ~detail.printed
        /\ export.status = "not_called"
        /\ pc = "done" =>
              calls = <<"parse_mongo_log", "print_summary",
                        "print_detailed_results", "banner">>

\* A run that ended after a read failure that followed a match.
C2_Witness ==
    /\ pc = "done"
    /\ scan_status = "io_error"
    /\ pml_queries # <<>>

\* The calls main makes when it runs to its end.
ExpectedCalls ==
    <<"parse_mongo_log", "print_summary", "print_detailed_results">>
    \o (IF EXPORT_RESULTS /\ collscan_queries # <<>>
        THEN <<"export_to_file">> ELSE <<>>)
    \o <<"banner">>

\* C3: whatever fails (the input is not found, a read fails, the export
\* fails), main makes its calls in the order scan, summary, detail view,
\* export (when requested and there are records), and every run reaches the
\* completion banner: no error leaves a stage.
C3_NoErrorIsFatal ==
    /\ [](pc = "done" => (banner /\ calls = ExpectedCalls))
    /\ [](\A i \in 1..Len(calls) : calls[i] = ExpectedCalls[i])
    /\ <>(pc = "done")

\* A run that printed the banner after a failed export.
C3_Witness ==
    /\ pc = "done"
    /\ banner
    /\ export.status = "failed"

\* The sum of the durations of the first n records that have one.
RECURSIVE SumKnown(_, _)
SumKnown(queries, n) ==
    IF n = 0 THEN 0
    ELSE SumKnown(queries, n - 1)
         + (IF IsNone(queries[n].duration_ms) THEN 0
            ELSE Val(queries[n].duration_ms))

\* C4: a printed average is, to two decimals, the sum of the known durations
\* divided by the number of all records, those without a duration included.
C4_AverageOverAllRecords ==
    ~IsNone(summary.average) =>
        LET n == Len(collscan_queries)
            total == SumKnown(collscan_queries, n)
            hundredths == Val(summary.average)
        IN /\ n > 0
           /\ 2 * n * hundredths - n <= 200 * total
           /\ 200 * total < 2 * n * hundredths + n

\* An average printed for records of which one has no duration.
C4_Witness ==
    /\ ~IsNone(summary.average)
    /\ \E i \in 1..Len(collscan_queries) : IsNone(collscan_queries[i].duration_ms)

\* The namespaces of the records, the number of records of each, and the
\* position of the first record of each.
Namespaces ==
    {Val(collscan_queries[i].collection) :
        i \in {j \in 1..Len(collscan_queries) :
                  ~IsNone(collscan_queries[j].collection)}}
RecordsOf(name) ==
    {i \in 1..Len(collscan_queries) : collscan_queries[i].collection = Some(name)}
FirstSeen(name) == CHOOSE i \in RecordsOf(name) : \A j \in RecordsOf(name) : i <= j

\* C5: the table of print_summary has one row per namespace with its number
\* of records, in descending order of count, and rows of equal count stand
\* in the order in which their namespaces first occur in the records.
C5_TableOrder ==
    summary.printed = "summary" =>
        LET table == summary.table
        IN /\ {table[i].collection : i \in 1..Len(table)} = Namespaces
           /\ Len(table) = Cardinality(Namespaces)
           /\ \A i \in 1..Len(table) :
                 table[i].count = Cardinality(RecordsOf(table[i].collection))
           /\ \A i, j \in 1..Len(table) :
                 i < j =>
                    /\ table[i].count >= table[j].count
                    /\ table[i].count = table[j].count =>
                          FirstSeen(table[i].collection)
                              < FirstSeen(table[j].collection)

\* A table with a tie, whose first row is the namespace seen first.
C5_Witness ==
    /\ Len(summary.table) >= 2
    /\ summary.table[1].count = summary.table[2].count
    /\ summary.table[1].collection = "db.b"
    /\ summary.table[2].collection = "db.a"

\* The optional fields of a record.
AllFieldsEmpty(query) ==
    /\ IsNone(query.timestamp) /\ IsNone(query.collection)
    /\ IsNone(query.query) /\ IsNone(query.duration_ms)
    /\ IsNone(query.docs_examined) /\ IsNone(query.keys_examined)
    /\ IsNone(query.plan_summary)

\* `queries` holds one record per marker line among the first n lines of the
\* file, in file order, and nothing else.
OneRecordPerMarkerLine(queries, n) ==
    /\ Len(queries) = Cardinality(MarkerLines(n))
    /\ \A i \in 1..Len(queries) :
        /\ queries[i].line_number = NthMarker(i, n)
        /\ queries[i].raw_line = log_lines[NthMarker(i, n)]
        /\ (\A t \in 1..Len(queries[i].raw_line) :
                queries[i].raw_line[t].k = "word")
              => AllFieldsEmpty(queries[i])

\* C6: while the file is read the scanner holds, and when the file has been
\* read to its end it returns, exactly one record for each line that contains
\* the marker, in file order, and none for another line; a marker line on
\* which no field pattern matches has its record, with every optional field
\* empty; a file without the marker gives the empty sequence.
C6_OneRecordPerMarkerLine ==
    /\ pc = "scan" => OneRecordPerMarkerLine(pml_queries, line_number)
    /\ (Returned /\ scan_status = "ok") =>
          /\ OneRecordPerMarkerLine(collscan_queries, Len(log_lines))
          /\ MarkerLines(Len(log_lines)) = {} => collscan_queries = <<>>

\* A file read to its end with a line that is no marker line and two marker
\* lines, on one of which no pattern matches.
C6_Witness ==
    /\ pc = "done"
    /\ scan_status = "ok"
    /\ Len(collscan_queries) = 2
    /\ Len(log_lines) = 3
    /\ AllFieldsEmpty(collscan_queries[2])
    /\ ~AllFieldsEmpty(collscan_queries[1])

\* C7: a successful export holds one block per record, numbered 1..n in the
\* order of the records, whatever limit the detail view was given.
C7_ExportWritesEveryRecord ==
    export.status = "exported" =>
        /\ Len(export.blocks) = Len(collscan_queries)
        /\ \A i \in 1..Len(export.blocks) :
            /\ export.blocks[i].index = i
            /\ export.blocks[i].line_number = collscan_queries[i].line_number
            /\ export.blocks[i].raw_line = collscan_queries[i].raw_line

\* An export of more records than the detail view showed.
C7_Witness ==
    /\ export.status = "exported"
    /\ Len(export.blocks) >= 2
    /\ detail.printed
    /\ Len(detail.blocks) < Len(export.blocks)

\* What the detail view promises about a limit.
DetailAddsUp ==
    LET n == Len(collscan_queries)
        shown == Len(detail.blocks)
        reported == IF IsNone(detail.more) THEN 0 ELSE Val(detail.more)
    IN /\ shown <= Val(detail.limit)
       /\ shown <= n
       /\ \A i \in 1..shown :
            /\ detail.blocks[i].index = i
            /\ detail.blocks[i].line_number = collscan_queries[i].line_number
       /\ reported = n - shown

\* C8 (as stated): for every limit the detail view shows at most limit
\* blocks, the first ones, and reports n minus the number shown as not shown.
C8_EveryLimit == detail.printed => DetailAddsUp

\* C8 (amended): the same for every limit that is not negative.
C8_NonNegativeLimit ==
    (detail.printed /\ Val(detail.limit) >= 0) => DetailAddsUp

\* A detail view that showed some records and reported others as not shown.
C8_Witness ==
    /\ detail.printed
    /\ Val(detail.limit) >= 1
    /\ Len(detail.blocks) = Val(detail.limit)
    /\ ~IsNone(detail.more)
    /\ Val(detail.more) >= 1

\* A record has a duration above 100.
SomeDurationAbove100 ==
    \E i \in 1..Len(collscan_queries) :
        /\ ~IsNone(collscan_queries[i].duration_ms)
        /\ Val(collscan_queries[i].duration_ms) > 100

\* C9: print_summary prints the slow-query count and the average exactly
\* when a record has a duration above 100; the count it prints is the number
\* of such records.
C9_SlowBlockIffAbove100 ==
    AfterSummary =>
        /\ ~IsNone(summary.slow) <=> SomeDurationAbove100
        /\ ~IsNone(summary.average) <=> SomeDurationAbove100
        /\ ~IsNone(summary.slow) =>
              Val(summary.slow) =
                  Cardinality({i \in 1..Len(collscan_queries) :
                      /\ ~IsNone(collscan_queries[i].duration_ms)
                      /\ Val(collscan_queries[i].duration_ms) > 100})

\* A summary of records with durations of 100 and less: no slow-query block.
C9_Witness ==
    /\ summary.printed = "summary"
    /\ IsNone(summary.slow)
    /\ IsNone(summary.average)
    /\ \E i \in 1..Len(collscan_queries) :
          collscan_queries[i].duration_ms = Some(100)

ConnectOutcome == site_trace[1][2]
SiteEnded == site_pc \in {"returned", "exited"}

\* C10: driver.quit() is called at most once, and when main ends it has been
\* called exactly once if connect_to_selenium returned a driver, whatever
\* login, navigation and listing did; when the connection failed the process
\* exits with status 1 and quit was never called.
C10_QuitExactlyOnce ==
    /\ quit_calls <= 1
    /\ quit_calls = 1 => site_pc \in {"returned", "exited"}
    /\ SiteEnded =>
          /\ ConnectOutcome = "driver" =>
                (quit_calls = 1 /\ site_pc = "returned" /\ IsNone(exit_status))
          /\ ConnectOutcome = "SystemExit" =>
                (quit_calls = 0 /\ site_pc = "exited" /\ exit_status = Some(1))
          /\ ConnectOutcome = "KeyboardInterrupt" => quit_calls = 0

\* main returned after a keyboard interrupt in a stage that followed the
\* connection, and the driver was quit.
C10_Witness ==
    /\ site_pc = "returned"
    /\ quit_calls = 1
    /\ \E i \in 2..Len(site_trace) : site_trace[i][2] = "KeyboardInterrupt"

====
